---- MODULE Spec2Model ----
(***************************************************************************)
(* Campaign orchestration coordinator of Orchestrate-Studios (frontend).   *)
(*                                                                         *)
(* The model follows the React components:                                 *)
(*   Home                (frontend/app/page.tsx)                           *)
(*   VideoUploader       (frontend/components/video-uploader.tsx)          *)
(*   OrchestrationStatus (unnamed/part_001, second half)                   *)
(*   CampaignResults     (unnamed/part_001, first half: mappedData)        *)
(*   api                 (frontend/components/dashboard-layout.tsx, tail)  *)
(*                                                                         *)
(* One action is one event handler or one continuation of an async         *)
(* function (the code between two awaits), followed by the render and the  *)
(* effects React runs before the next event.                               *)
(***************************************************************************)
EXTENDS Integers, Sequences, FiniteSets, TLC

VARIABLES
    \* Home (page.tsx:15-17)
    uploadedFile, orchStatus, campaignData,
    \* localStorage entry 'lastCampaign' (page.tsx:28,45,70)
    storage,
    \* VideoUploader (video-uploader.tsx:20-25)
    file, uploadProgress, isUploading, useManualTranscript, manualTranscript, error,
    \* running processVideo calls, each suspended at an await (video-uploader.tsx:61-124)
    procs,
    \* OrchestrationStatus: is an instance mounted, and its agents state (part_001:81-100)
    orchMounted, agents,
    \* running runOrchestrationPipeline calls (part_001:108-127)
    runs,
    \* the React tree was torn down by an exception thrown while rendering
    crashed,
    \* CampaignResults as a function: its argument and the mappedData it built
    raw, mappedData,
    \* TasksCard: its tasks state while it is mounted, else undefined
    \* (part_002:20)
    tasks,
    \* observation only: the backend payload handleCampaignCreated took in the
    \* current attempt, and which signal of the current attempt was the first
    \* to set campaignData ("none", "backend", "pipeline")
    accepted, finalizedBy

vars == <<uploadedFile, orchStatus, campaignData, storage, file, uploadProgress,
          isUploading, useManualTranscript, manualTranscript, error, procs,
          orchMounted, agents, runs, crashed, raw, mappedData, tasks, accepted,
          finalizedBy>>

(***************************************************************************)
(* JavaScript values.  Every value is a record tagged with its type, so    *)
(* that an absent property (undefined), null, "" and [] stay distinct.     *)
(***************************************************************************)
Undef == [t |-> "undefined"]
Null == [t |-> "null"]
Str(s) == [t |-> "string", s |-> s]
Num(n) == [t |-> "number", n |-> n]
Bool(b) == [t |-> "boolean", b |-> b]
Arr(a) == [t |-> "array", a |-> a]
Obj(f) == [t |-> "object", f |-> f]
\* the exception a property read on undefined / null throws
TypeError == [t |-> "TypeError"]
\* the exception JSON.parse throws
SyntaxError == [t |-> "SyntaxError"]

EmptyObj == Obj([k \in {} |-> Undef])

IsNullish(v) == v.t \in {"undefined", "null"}

\* ToBoolean: what `if (v)`, `v && ..`, `v || ..`, `!v` test
Truthy(v) ==
    CASE v.t = "undefined" -> FALSE
      [] v.t = "null" -> FALSE
      [] v.t = "string" -> v.s # ""
      [] v.t = "number" -> v.n # 0
      [] v.t = "boolean" -> v.b
      [] v.t = "text" -> v.toks # <<>>
      [] OTHER -> TRUE

\* a || b
Or(a, b) == IF Truthy(a) THEN a ELSE b

\* v.k on an object (the caller has excluded undefined / null)
Get(v, k) == IF v.t = "object" /\ k \in DOMAIN v.f THEN v.f[k] ELSE Undef

\* v?.k
OptGet(v, k) == IF IsNullish(v) THEN Undef ELSE Get(v, k)

\* v?.[i] with a 0-based index i
OptIndex(v, i) ==
    IF IsNullish(v) THEN Undef
    ELSE IF v.t = "array" /\ i + 1 <= Len(v.a) THEN v.a[i + 1] ELSE Undef

(***************************************************************************)
(* CampaignResults: mappedData (part_001:14-36).                           *)
(***************************************************************************)
\* task.priority || "MEDIUM"
DefaultPriority(p) == Or(p, Str("MEDIUM"))

\* the task mapping with completed taken from the truthiness of status
MapTaskAnyStatus(task) ==
    Obj([task |-> Or(Or(Get(task, "title"), Get(task, "description")), Str("")),
         priority |-> DefaultPriority(Get(task, "priority")),
         estimated_time |->
             IF Truthy(Get(task, "estimated_hours"))
             THEN Str(ToString(Get(task, "estimated_hours").n) \o " hours")
             ELSE Str("TBD"),
         completed |-> Bool(Truthy(Get(task, "status")))])

MapTask(task) ==
    Obj([task |-> Or(Or(Get(task, "title"), Get(task, "description")), Str("")),
         priority |-> DefaultPriority(Get(task, "priority")),
         estimated_time |->
             IF Truthy(Get(task, "estimated_hours"))
             THEN Str(ToString(Get(task, "estimated_hours").n) \o " hours")
             ELSE Str("TBD"),
         completed |-> Bool(Get(task, "status") = Str("DONE"))])

MapStrategy(s) ==
    LET kt == Get(s, "key_themes")
        own == [k \in {"primary_angle", "key_messages", "goals"} |->
                  CASE k = "primary_angle" -> Or(OptIndex(kt, 0), Str("Marketing Strategy"))
                    [] k = "key_messages" -> Or(kt, Arr(<<>>))
                    [] k = "goals" -> Or(Get(s, "campaign_objectives"), Arr(<<>>))]
    IN  \* {...data.strategy, primary_angle, key_messages, goals}: the three
        \* named properties override the spread ones
        Obj(own @@ (IF s.t = "object" THEN s.f ELSE [k \in {} |-> Undef]))

MapTiktok(data) ==
    LET tk == OptGet(OptGet(data, "platform_content"), "tiktok")
    IN  Obj([hook |-> Or(OptGet(tk, "hook"), Str("")),
             caption |-> Or(OptGet(tk, "caption"), Str("")),
             hashtags |-> Or(OptGet(tk, "hashtags"), Arr(<<>>)),
             optimal_time |-> Or(OptGet(tk, "posting_time"), Str("6-9 PM")),
             format |-> Or(OptGet(tk, "format"), Str("")),
             duration |-> Or(OptGet(tk, "duration"), Str("")),
             cta |-> Or(OptGet(tk, "cta"), Str(""))])

MapTasks(data) ==
    LET ts == OptGet(OptGet(data, "production_tasks"), "tasks")
    IN  IF IsNullish(ts) THEN Arr(<<>>)
        ELSE Arr([i \in 1..Len(ts.a) |-> MapTask(ts.a[i])])

\* the value of mappedData, or TypeError when building it throws
\* (data.strategy.key_themes with data.strategy undefined or null)
Normalize(data) ==
    IF IsNullish(Get(data, "strategy")) THEN TypeError
    ELSE Obj([strategy |-> MapStrategy(Get(data, "strategy")),
              tiktok |-> MapTiktok(data),
              tasks |-> MapTasks(data)])

(***************************************************************************)
(* JSON.stringify / JSON.parse (page.tsx:31,45).  A JSON text is held as   *)
(* its sequence of tokens.  Objects are functions here, so the order of    *)
(* the properties in a text is a fixed enumeration of the keys.            *)
(***************************************************************************)
Text(toks) == [t |-> "text", toks |-> toks]

Punct(c) == [k |-> "punct", c |-> c]
StrTok(s) == [k |-> "string", s |-> s]
NumTok(n) == [k |-> "number", n |-> n]
Lit(w) == [k |-> "literal", w |-> w]

RECURSIVE KeySeq(_)
KeySeq(S) ==
    IF S = {} THEN <<>>
    ELSE LET k == CHOOSE x \in S : TRUE IN <<k>> \o KeySeq(S \ {k})

RECURSIVE StringifyTokens(_)
RECURSIVE StringifyElements(_, _)
RECURSIVE StringifyMembers(_, _)

StringifyElements(a, i) ==
    IF i > Len(a) THEN <<>>
    ELSE (IF i > 1 THEN <<Punct(",")>> ELSE <<>>)
         \o (IF a[i].t = "undefined" THEN <<Lit("null")>> ELSE StringifyTokens(a[i]))
         \o StringifyElements(a, i + 1)

\* ks: the keys still to write; properties whose value is undefined are left out
StringifyMembers(f, ks) ==
    IF ks = <<>> THEN <<>>
    ELSE <<StrTok(Head(ks)), Punct(":")>> \o StringifyTokens(f[Head(ks)])
         \o (IF Len(ks) > 1 THEN <<Punct(",")>> ELSE <<>>)
         \o StringifyMembers(f, Tail(ks))

StringifyTokens(v) ==
    CASE v.t = "null" -> <<Lit("null")>>
      [] v.t = "string" -> <<StrTok(v.s)>>
      [] v.t = "number" -> <<NumTok(v.n)>>
      [] v.t = "boolean" -> <<Lit(IF v.b THEN "true" ELSE "false")>>
      [] v.t = "array" -> <<Punct("[")>> \o StringifyElements(v.a, 1) \o <<Punct("]")>>
      [] v.t = "object" ->
            <<Punct("{")>>
            \o StringifyMembers(v.f, KeySeq({k \in DOMAIN v.f : v.f[k].t # "undefined"}))
            \o <<Punct("}")>>

JsonStringify(v) == Text(StringifyTokens(v))

ParseFail == [ok |-> FALSE]
ParseOk(v, i) == [ok |-> TRUE, v |-> v, i |-> i]
IsPunct(toks, i, c) == i <= Len(toks) /\ toks[i] = Punct(c)

RECURSIVE ParseValue(_, _)
RECURSIVE ParseElements(_, _, _)
RECURSIVE ParseMembers(_, _, _)

\* the elements of an array from token i on, acc the ones read so far
ParseElements(toks, i, acc) ==
    LET r == ParseValue(toks, i)
    IN  IF ~r.ok THEN ParseFail
        ELSE IF IsPunct(toks, r.i, ",") THEN ParseElements(toks, r.i + 1, Append(acc, r.v))
        ELSE IF IsPunct(toks, r.i, "]") THEN ParseOk(Arr(Append(acc, r.v)), r.i + 1)
        ELSE ParseFail

\* the members of an object from token i on, acc the ones read so far
ParseMembers(toks, i, acc) ==
    IF ~(i <= Len(toks) /\ toks[i].k = "string" /\ IsPunct(toks, i + 1, ":")) THEN ParseFail
    ELSE LET r == ParseValue(toks, i + 2)
         IN  IF ~r.ok THEN ParseFail
             ELSE LET acc2 == (toks[i].s :> r.v) @@ acc
                  IN  IF IsPunct(toks, r.i, ",") THEN ParseMembers(toks, r.i + 1, acc2)
                      ELSE IF IsPunct(toks, r.i, "}") THEN ParseOk(Obj(acc2), r.i + 1)
                      ELSE ParseFail

ParseValue(toks, i) ==
    IF i > Len(toks) THEN ParseFail
    ELSE LET tk == toks[i]
         IN  CASE tk.k = "string" -> ParseOk(Str(tk.s), i + 1)
               [] tk.k = "number" -> ParseOk(Num(tk.n), i + 1)
               [] tk.k = "literal" ->
                     IF tk.w = "null" THEN ParseOk(Null, i + 1)
                     ELSE IF tk.w = "true" THEN ParseOk(Bool(TRUE), i + 1)
                     ELSE IF tk.w = "false" THEN ParseOk(Bool(FALSE), i + 1)
                     ELSE ParseFail
               [] tk.k = "punct" /\ tk.c = "[" ->
                     IF IsPunct(toks, i + 1, "]") THEN ParseOk(Arr(<<>>), i + 2)
                     ELSE ParseElements(toks, i + 1, <<>>)
               [] tk.k = "punct" /\ tk.c = "{" ->
                     IF IsPunct(toks, i + 1, "}") THEN ParseOk(EmptyObj, i + 2)
                     ELSE ParseMembers(toks, i + 1, [k \in {} |-> Undef])
               [] OTHER -> ParseFail

\* the parsed value, or SyntaxError when JSON.parse throws
JsonParse(text) ==
    LET r == ParseValue(text.toks, 1)
    IN  IF r.ok /\ r.i = Len(text.toks) + 1 THEN r.v ELSE SyntaxError

(***************************************************************************)
(* Values the model draws its inputs from.                                 *)
(***************************************************************************)
File(type, size) == [t |-> "File", type |-> type, size |-> size]

\* video-uploader.tsx:28-29
SUPPORTED_FORMATS == {"video/mp4", "video/quicktime", "video/webm"}
MAX_FILE_SIZE == 500 * 1024 * 1024

\* the files a user may pick or drop
CandidateFiles ==
    {File("video/mp4", MAX_FILE_SIZE), File("video/mp4", MAX_FILE_SIZE + 1),
     File("application/pdf", 1024)}

\* what a user may type into the transcript textarea
Transcripts == {"", " ", "hello world"}
WhitespaceOnly == {"", " "}
\* String.prototype.trim on the strings of Transcripts
Trim(s) == IF s \in WhitespaceOnly THEN "" ELSE s

\* generateSampleCampaignData (part_001:129-151); the caption is written
\* without its emoji
SampleTask(task, priority, time) ==
    Obj([task |-> Str(task), priority |-> Str(priority), estimated_time |-> Str(time),
         completed |-> Bool(FALSE)])

generateSampleCampaignData ==
    Obj([strategy |-> Obj([
            primary_angle |-> Str("Behind-the-scenes transformation story"),
            target_audience |-> Str("Gen Z entrepreneurs (18-28)"),
            key_messages |-> Arr(<<Str("Innovation"), Str("Authenticity"), Str("Growth"),
                                   Str("Community")>>),
            content_pillars |-> Arr(<<Str("Education"), Str("Entertainment"),
                                      Str("Inspiration")>>)]),
         tiktok |-> Obj([
            hook |-> Str("You won't believe what this AI just created..."),
            caption |-> Str("From idea to viral content in seconds #AI #ContentCreation #MarketingHacks"),
            hashtags |-> Arr(<<Str("#viral"), Str("#ai"), Str("#marketing"), Str("#tiktok"),
                               Str("#contenttips"), Str("#entrepreneurship")>>),
            optimal_time |-> Str("Tuesday 6-9 PM ET")]),
         tasks |-> Arr(<<
            SampleTask("Review generated hook text", "HIGH", "5 min"),
            SampleTask("Film B-roll footage", "HIGH", "30 min"),
            SampleTask("Add music and sound effects", "MEDIUM", "15 min"),
            SampleTask("Schedule post for optimal time", "MEDIUM", "5 min"),
            SampleTask("Prepare additional hashtag variations", "LOW", "10 min")>>)])

\* a backend payload of the nested shape
NestedPayload ==
    Obj([id |-> Str("c-1"),
         strategy |-> Obj([key_themes |-> Arr(<<Str("Launch"), Str("Trust")>>),
                           campaign_objectives |-> Arr(<<Str("Awareness")>>),
                           target_audience |-> Str("Founders"),
                           content_pillars |-> Arr(<<Str("Education")>>)]),
         platform_content |-> Obj([tiktok |-> Obj([hook |-> Str("Watch this"),
                                                   caption |-> Str("New drop"),
                                                   hashtags |-> Arr(<<Str("#launch")>>),
                                                   posting_time |-> Str("7 PM")])]),
         production_tasks |-> Obj([tasks |-> Arr(<<
            Obj([title |-> Str("Cut the teaser"), priority |-> Str("HIGH"),
                 estimated_hours |-> Num(2), status |-> Str("DONE")])>>)])])

\* the flat, already canonical payload of the specification's example
FlatPayload ==
    Obj([strategy |-> Obj([primary_angle |-> Str("X"), target_audience |-> Str("A"),
                           key_messages |-> Arr(<<Str("M")>>),
                           content_pillars |-> Arr(<<Str("P")>>)]),
         tiktok |-> Obj([hook |-> Str("Y"), caption |-> Str("C"),
                         hashtags |-> Arr(<<Str("#h")>>), optimal_time |-> Str("noon")]),
         tasks |-> Arr(<<SampleTask("Z", "HIGH", "5 min")>>)])

\* a partial payload: no strategy
PartialPayload ==
    Obj([id |-> Str("c-2"),
         platform_content |-> Obj([tiktok |-> Obj([hook |-> Str("Only a hook")])])])

\* what response.json() of the two campaign endpoints may resolve to
CreateResponses == {NestedPayload, PartialPayload, Null}

\* what response.json() of the upload endpoint may resolve to
UploadResponses == {Obj([transcript |-> Str("hello world")])}

\* the messages of the errors the api functions reject with
\* (dashboard-layout.tsx:120,140,160, and fetch itself)
UploadErrors == {"Failed to upload video"}
CreateErrors == {"Failed to create campaign"}

\* what may sit under 'lastCampaign' when the page is first opened
InitialStorage ==
    {Null,
     Text(<<>>),
     Text(<<Punct("{"), StrTok("strategy"), Punct(":")>>),
     Text(<<Lit("null")>>),
     Text(<<Punct("{"), Punct("}")>>),
     JsonStringify(generateSampleCampaignData)}

(***************************************************************************)
(* Bounds.                                                                 *)
(***************************************************************************)
\* runOrchestrationPipeline calls that may be running at the same time
MaxRuns == 2

(***************************************************************************)
(* Rendering.                                                              *)
(***************************************************************************)
AgentsPending == <<"pending", "pending", "pending">>

RemoveAt(q, i) == SubSeq(q, 1, i - 1) \o SubSeq(q, i + 1, Len(q))

\* a submission or a reset ends the attempt the running calls belong to
Stale(q) == [i \in 1..Len(q) |-> [q[i] EXCEPT !.current = FALSE]]

\* the components' setState calls reach no instance any more
Detached(q) == [i \in 1..Len(q) |-> [q[i] EXCEPT !.live = FALSE]]

\* Rendering <CampaignResults data={campaignData}/> throws: mappedData cannot
\* be built, or StrategyCard maps over an undefined content_pillars
\* (part_001:17, strategy-card.tsx:83)
RenderThrows(cd) ==
    LET m == Normalize(cd)
    IN  \/ m = TypeError
        \/ IsNullish(Get(Get(m, "strategy"), "content_pillars"))

\* {uploadedFile && orchStatus !== "idle" && orchStatus !== "completed" && ..}
\* (page.tsx:136)
OrchestrationShown(uf, st) == Truthy(uf) /\ st \notin {"idle", "completed"}

\* the 'Prevent data loss' effect (page.tsx:42-47): the text it stores, given
\* the entry sto already there
Persisted(cd, sto) ==
    IF Truthy(cd) /\ Truthy(Get(cd, "strategy")) THEN JsonStringify(cd) ELSE sto

\* TasksCard's state after a render of Home with campaignData = cd, shown the
\* state before it: useState(initialTasks) takes mappedData.tasks when the
\* card mounts and ignores the prop afterwards (part_002:20, part_001:55,
\* page.tsx:153-178)
TasksState(cd, shown) ==
    IF ~Truthy(cd) THEN Undef
    ELSE IF shown # Undef THEN shown
    ELSE Normalize(cd).f.tasks

(***************************************************************************)
(* The render that follows a handler, and the effects it runs.  uf, st, cd *)
(* are Home's new state, setCD tells whether setCampaignData was called,   *)
(* sto is the storage entry, ags and rs are the agents and the pipeline    *)
(* calls as the handler left them.                                         *)
(***************************************************************************)
Commit(uf, st, cd, setCD, sto, ags, rs) ==
    LET shown == OrchestrationShown(uf, st)
        kept == orchMounted /\ shown
        ags1 == IF kept THEN ags ELSE AgentsPending
        rs1 == IF kept THEN rs ELSE Detached(rs)
        \* useEffect(.., [status]) of OrchestrationStatus (part_001:102-106)
        fire == shown /\ st = "orchestrating" /\ (~orchMounted \/ orchStatus # st)
    IN  /\ uploadedFile' = uf
        /\ orchStatus' = st
        /\ campaignData' = cd
        /\ IF Truthy(cd) /\ RenderThrows(cd)
           THEN \* no error boundary: React unmounts the tree, no effect runs,
                \* and what still runs can only set state of unmounted components
                /\ crashed' = TRUE
                /\ tasks' = Undef
                /\ storage' = sto
                /\ orchMounted' = FALSE
                /\ agents' = AgentsPending
                /\ runs' = <<>>
           ELSE /\ crashed' = FALSE
                /\ tasks' = TasksState(cd, tasks)
                /\ storage' = IF setCD THEN Persisted(cd, sto) ELSE sto
                /\ orchMounted' = shown
                \* runOrchestrationPipeline up to its first await (part_001:110-111)
                /\ agents' = IF fire THEN [ags1 EXCEPT ![1] = "processing"] ELSE ags1
                /\ runs' = IF fire
                           THEN Append(rs1, [pc |-> "agent1", live |-> TRUE,
                                             captured |-> cd, current |-> TRUE])
                           ELSE rs1

\* the restore effect without its try/catch: the SyntaxError leaves the effect
LoadStateNoCatch(s) ==
    LET tried == Truthy(s)
        data == IF tried THEN JsonParse(s) ELSE Undef
        restored == tried /\ data # SyntaxError
        cd == IF restored THEN data ELSE Null
        throws == (tried /\ data = SyntaxError) \/ (Truthy(cd) /\ RenderThrows(cd))
    IN  [campaignData |-> cd,
         orchStatus |-> IF restored THEN "completed" ELSE "idle",
         crashed |-> throws,
         storage |-> IF throws THEN s ELSE Persisted(cd, s)]

\* the state of a page freshly loaded over the storage entry s (page.tsx:19-47)
LoadState(s) ==
    LET tried == Truthy(s)
        data == IF tried THEN JsonParse(s) ELSE Undef
        restored == tried /\ data # SyntaxError
        cd == IF restored THEN data ELSE Null
        throws == Truthy(cd) /\ RenderThrows(cd)
    IN  [campaignData |-> cd,
         orchStatus |-> IF restored THEN "completed" ELSE "idle",
         crashed |-> throws,
         storage |-> IF throws THEN s ELSE Persisted(cd, s)]

Loaded(s) ==
    /\ uploadedFile = Null
    /\ orchStatus = LoadState(s).orchStatus
    /\ campaignData = LoadState(s).campaignData
    /\ storage = LoadState(s).storage
    /\ crashed = LoadState(s).crashed
    /\ tasks = IF LoadState(s).crashed THEN Undef
               ELSE TasksState(LoadState(s).campaignData, Undef)
    /\ file = Null
    /\ uploadProgress = 0
    /\ isUploading = FALSE
    /\ useManualTranscript = FALSE
    /\ manualTranscript = Str("")
    /\ error = Null
    /\ procs = <<>>
    /\ orchMounted = FALSE
    /\ agents = AgentsPending
    /\ runs = <<>>
    /\ accepted = Null
    /\ finalizedBy = "none"

Init ==
    /\ \E s \in InitialStorage : Loaded(s)
    /\ raw = Undef
    /\ mappedData = Undef

(***************************************************************************)
(* VideoUploader (video-uploader.tsx).                                     *)
(***************************************************************************)
HomeUnchanged == UNCHANGED <<uploadedFile, orchStatus, campaignData, storage, orchMounted,
                             agents, runs, crashed, tasks, accepted, finalizedBy>>

\* validateFile without its size test
validateFileNoSizeTest(selectedFile) ==
    IF selectedFile.type \notin SUPPORTED_FORMATS
    THEN [error |-> Str("Please upload an MP4, MOV, or WebM file"), ok |-> FALSE]
    ELSE [error |-> Null, ok |-> TRUE]

\* validateFile (video-uploader.tsx:31-42): the error it sets and what it returns
validateFile(selectedFile) ==
    IF selectedFile.type \notin SUPPORTED_FORMATS
    THEN [error |-> Str("Please upload an MP4, MOV, or WebM file"), ok |-> FALSE]
    ELSE IF selectedFile.size > MAX_FILE_SIZE
    THEN [error |-> Str("File size must be under 500MB"), ok |-> FALSE]
    ELSE [error |-> Null, ok |-> TRUE]

\* the body handleFileChange and handleDrop share (video-uploader.tsx:44-59)
SelectFile(selectedFile) ==
    /\ ~crashed
    /\ error' = validateFile(selectedFile).error
    /\ file' = IF validateFile(selectedFile).ok THEN selectedFile ELSE file
    /\ HomeUnchanged
    /\ UNCHANGED <<uploadProgress, isUploading, useManualTranscript, manualTranscript,
                   procs, raw, mappedData>>

handleFileChange == \E f \in CandidateFiles : SelectFile(f)

handleDrop == \E f \in CandidateFiles : SelectFile(f)

\* the checkbox (video-uploader.tsx:219-224)
setUseManualTranscript ==
    /\ ~crashed
    /\ useManualTranscript' = ~useManualTranscript
    /\ HomeUnchanged
    /\ UNCHANGED <<file, uploadProgress, isUploading, manualTranscript, error, procs,
                   raw, mappedData>>

\* the textarea, rendered only while the checkbox is ticked (video-uploader.tsx:231-238)
setManualTranscript ==
    /\ ~crashed
    /\ useManualTranscript
    /\ \E s \in Transcripts :
          /\ s # manualTranscript.s
          /\ manualTranscript' = Str(s)
    /\ HomeUnchanged
    /\ UNCHANGED <<file, uploadProgress, isUploading, useManualTranscript, error, procs,
                   raw, mappedData>>

\* the disabled attribute without its isUploading test
SubmitDisabledWhenEmpty ==
    ~Truthy(file) /\ ~Truthy(Str(Trim(manualTranscript.s)))

\* the Submit button's disabled attribute (video-uploader.tsx:244)
SubmitDisabled ==
    isUploading \/ (~Truthy(file) /\ ~Truthy(Str(Trim(manualTranscript.s))))

\* a rejection that also reports the pipeline as failed
RejectSubmitAsError(message) ==
    /\ error' = Str(message)
    /\ Commit(uploadedFile, "error", campaignData, FALSE, storage, agents, runs)
    /\ UNCHANGED <<file, uploadProgress, isUploading, useManualTranscript,
                   manualTranscript, procs, raw, mappedData, accepted, finalizedBy>>

\* what handleSubmit does when it turns a submission down
RejectSubmit(message) ==
    /\ error' = Str(message)
    /\ HomeUnchanged
    /\ UNCHANGED <<file, uploadProgress, isUploading, useManualTranscript,
                   manualTranscript, procs, raw, mappedData>>

\* handleSubmit with a processVideo that tests manualTranscript before file
handleSubmitTranscriptFirst ==
    /\ ~crashed
    /\ IF ~Truthy(file) /\ ~Truthy(manualTranscript)
       THEN RejectSubmit("Please upload a video or provide a transcript")
       ELSE IF ~Truthy(file) /\ useManualTranscript
               /\ ~Truthy(Str(Trim(manualTranscript.s)))
       THEN RejectSubmit("Please enter a transcript")
       ELSE \* processVideo: its own guard (line 62) cannot fail here
            /\ Len(runs) < MaxRuns
            /\ isUploading' = TRUE
            /\ error' = Null
            /\ accepted' = Null
            /\ finalizedBy' = "none"
            /\ IF Truthy(file) /\ ~Truthy(manualTranscript)
               THEN \* onFileSelect(file); "uploading"; await api.uploadVideo(file)
                    /\ Commit(file, "uploading", campaignData, FALSE, storage, agents,
                              Stale(runs))
                    /\ uploadProgress' = 30
                    /\ procs' = IF crashed' THEN <<>>
                                ELSE Append(Stale(procs),
                                            [pc |-> "uploadVideo", file |-> file,
                                             transcript |-> manualTranscript,
                                             current |-> TRUE])
               ELSE \* "uploading", then "orchestrating" in the same batch;
                    \* await api.createCampaignFromTranscript(manualTranscript, ..)
                    /\ Commit(uploadedFile, "orchestrating", campaignData, FALSE, storage,
                              agents, Stale(runs))
                    /\ uploadProgress' = uploadProgress
                    /\ procs' = IF crashed' THEN <<>>
                                ELSE Append(Stale(procs),
                                            [pc |-> "createCampaignFromTranscript",
                                             file |-> file,
                                             transcript |-> manualTranscript,
                                             current |-> TRUE])
            /\ UNCHANGED <<file, useManualTranscript, manualTranscript, raw, mappedData>>

\* handleSubmit (video-uploader.tsx:126-139) with the processVideo call it
\* ends in, up to processVideo's first await (video-uploader.tsx:61-97)
handleSubmit ==
    /\ ~crashed
    /\ IF ~Truthy(file) /\ ~Truthy(manualTranscript)
       THEN RejectSubmit("Please upload a video or provide a transcript")
       ELSE IF ~Truthy(file) /\ useManualTranscript
               /\ ~Truthy(Str(Trim(manualTranscript.s)))
       THEN RejectSubmit("Please enter a transcript")
       ELSE \* processVideo: its own guard (line 62) cannot fail here
            /\ Len(runs) < MaxRuns
            /\ isUploading' = TRUE
            /\ error' = Null
            /\ accepted' = Null
            /\ finalizedBy' = "none"
            /\ IF Truthy(file)
               THEN \* onFileSelect(file); "uploading"; await api.uploadVideo(file)
                    /\ Commit(file, "uploading", campaignData, FALSE, storage, agents,
                              Stale(runs))
                    /\ uploadProgress' = 30
                    /\ procs' = IF crashed' THEN <<>>
                                ELSE Append(Stale(procs),
                                            [pc |-> "uploadVideo", file |-> file,
                                             transcript |-> manualTranscript,
                                             current |-> TRUE])
               ELSE \* "uploading", then "orchestrating" in the same batch;
                    \* await api.createCampaignFromTranscript(manualTranscript, ..)
                    /\ Commit(uploadedFile, "orchestrating", campaignData, FALSE, storage,
                              agents, Stale(runs))
                    /\ uploadProgress' = uploadProgress
                    /\ procs' = IF crashed' THEN <<>>
                                ELSE Append(Stale(procs),
                                            [pc |-> "createCampaignFromTranscript",
                                             file |-> file,
                                             transcript |-> manualTranscript,
                                             current |-> TRUE])
            /\ UNCHANGED <<file, useManualTranscript, manualTranscript, raw, mappedData>>

\* a click on the Submit button
ClickSubmit == ~SubmitDisabled /\ handleSubmit

\* handleSubmit called although the button is disabled and no run is under way
\* (the button is the only caller in the page; a caller of the handler itself
\* is not held back by the attribute)
CallSubmit == SubmitDisabled /\ ~isUploading /\ handleSubmit

\* handleCampaignCreated (page.tsx:74-94): Home's campaignData and orchStatus
\* after the call
handleCampaignCreated(data) ==
    IF Truthy(data) /\ Truthy(Get(data, "strategy")) /\ Truthy(Get(data, "platform_content"))
    THEN [campaignData |-> data, orchStatus |-> "completed", set |-> TRUE]
    ELSE IF Truthy(data)
    THEN [campaignData |-> data, orchStatus |-> "completed", set |-> TRUE]
    ELSE [campaignData |-> campaignData, orchStatus |-> orchStatus, set |-> FALSE]

\* api.uploadVideo resolved: processVideo from line 79 to the await of line 85
UploadResolved(i) ==
    /\ ~crashed
    /\ procs[i].pc = "uploadVideo"
    /\ \E uploadResult \in UploadResponses :
          /\ Commit(uploadedFile, "orchestrating", campaignData, FALSE, storage, agents,
                    runs)
          /\ uploadProgress' = 60
          /\ procs' = IF crashed' THEN <<>>
                      ELSE [procs EXCEPT ![i] = [@ EXCEPT !.pc = "createCampaign",
                                                          !.transcript =
                                                              Get(uploadResult, "transcript")]]
    /\ UNCHANGED <<file, isUploading, useManualTranscript, manualTranscript, error,
                   raw, mappedData, accepted, finalizedBy>>

\* a catch block that also drops the campaign held by Home
CaughtDropsCampaign(i, message) ==
    /\ Commit(uploadedFile, "error", Null, TRUE, storage, agents, runs)
    /\ error' = Str(message)
    /\ isUploading' = FALSE
    /\ uploadProgress' = 0
    /\ procs' = IF crashed' THEN <<>> ELSE RemoveAt(procs, i)
    /\ UNCHANGED <<file, useManualTranscript, manualTranscript, raw, mappedData, accepted,
                   finalizedBy>>

\* the catch block without its onStatusChange("error")
CaughtKeepsStatus(i, message) ==
    /\ Commit(uploadedFile, orchStatus, campaignData, FALSE, storage, agents, runs)
    /\ error' = Str(message)
    /\ isUploading' = FALSE
    /\ uploadProgress' = 0
    /\ procs' = IF crashed' THEN <<>> ELSE RemoveAt(procs, i)
    /\ UNCHANGED <<file, useManualTranscript, manualTranscript, raw, mappedData, accepted,
                   finalizedBy>>

\* the catch and finally blocks (video-uploader.tsx:116-123)
Caught(i, message) ==
    /\ Commit(uploadedFile, "error", campaignData, FALSE, storage, agents, runs)
    /\ error' = Str(message)
    /\ isUploading' = FALSE
    /\ uploadProgress' = 0
    /\ procs' = IF crashed' THEN <<>> ELSE RemoveAt(procs, i)
    /\ UNCHANGED <<file, useManualTranscript, manualTranscript, raw, mappedData, accepted,
                   finalizedBy>>

\* a rejected upload that is reported and then goes on to createCampaign
UploadRejectedGoesOn(i) ==
    /\ ~crashed
    /\ procs[i].pc = "uploadVideo"
    /\ \E message \in UploadErrors :
          /\ Commit(uploadedFile, "orchestrating", campaignData, FALSE, storage, agents,
                    runs)
          /\ error' = Str(message)
          /\ uploadProgress' = 60
          /\ procs' = IF crashed' THEN <<>>
                      ELSE [procs EXCEPT ![i] = [@ EXCEPT !.pc = "createCampaign"]]
    /\ UNCHANGED <<file, isUploading, useManualTranscript, manualTranscript,
                   raw, mappedData, accepted, finalizedBy>>

\* api.uploadVideo rejected
UploadRejected(i) ==
    /\ ~crashed
    /\ procs[i].pc = "uploadVideo"
    /\ \E message \in UploadErrors : Caught(i, message)

\* api.createCampaign / createCampaignFromTranscript rejected
CreateRejected(i) ==
    /\ ~crashed
    /\ procs[i].pc \in {"createCampaign", "createCampaignFromTranscript"}
    /\ \E message \in CreateErrors : Caught(i, message)

\* api.createCampaign / createCampaignFromTranscript resolved: processVideo
\* from line 99 to its end
CreateResolved(i) ==
    /\ ~crashed
    /\ procs[i].pc \in {"createCampaign", "createCampaignFromTranscript"}
    /\ \E campaignResult \in CreateResponses :
          IF Truthy(campaignResult)
          THEN LET h == handleCampaignCreated(campaignResult)
               IN  \* onCampaignCreated(campaignResult); onStatusChange("completed")
                   /\ Commit(uploadedFile, "completed", h.campaignData, h.set, storage,
                             agents, runs)
                   /\ accepted' = IF procs[i].current THEN campaignResult ELSE accepted
                   /\ finalizedBy' = IF procs[i].current /\ finalizedBy = "none"
                                     THEN "backend" ELSE finalizedBy
          ELSE /\ Commit(uploadedFile, orchStatus, campaignData, FALSE, storage, agents,
                         runs)
               /\ UNCHANGED <<accepted, finalizedBy>>
    /\ isUploading' = FALSE
    /\ uploadProgress' = 0
    /\ procs' = IF crashed' THEN <<>> ELSE RemoveAt(procs, i)
    /\ UNCHANGED <<file, useManualTranscript, manualTranscript, error, raw, mappedData>>

(***************************************************************************)
(* OrchestrationStatus: runOrchestrationPipeline (part_001:108-127).       *)
(***************************************************************************)
UploaderUnchanged == UNCHANGED <<file, uploadProgress, isUploading, useManualTranscript,
                                 manualTranscript, error, raw, mappedData>>

PcOrder == [agent1 |-> 1, agent2 |-> 2, agent3 |-> 3, emit |-> 4]

\* All calls wait the same fixed delays, so a call started earlier is always
\* further on than one started later.
TimerDue(j) == \A i \in 1..(j - 1) : PcOrder[runs[i].pc] > PcOrder[runs[j].pc]

\* setAgents of a call whose component instance is still mounted
SetAgent(run, ags, n, status) == IF run.live THEN [ags EXCEPT ![n] = status] ELSE ags

\* one of the three stage timers ran out (part_001:112-122)
AgentDone(j) ==
    /\ ~crashed
    /\ runs[j].pc \in {"agent1", "agent2", "agent3"}
    /\ TimerDue(j)
    /\ LET run == runs[j]
           ags == CASE run.pc = "agent1" ->
                         SetAgent(run, SetAgent(run, agents, 1, "completed"), 2, "processing")
                    [] run.pc = "agent2" ->
                         SetAgent(run, SetAgent(run, agents, 2, "completed"), 3, "processing")
                    [] run.pc = "agent3" ->
                         SetAgent(run, agents, 3, "completed")
           pc == CASE run.pc = "agent1" -> "agent2"
                   [] run.pc = "agent2" -> "agent3"
                   [] run.pc = "agent3" -> "emit"
       IN  Commit(uploadedFile, orchStatus, campaignData, FALSE, storage, ags,
                  [runs EXCEPT ![j] = [@ EXCEPT !.pc = pc]])
    /\ UNCHANGED <<procs, accepted, finalizedBy>>
    /\ UploaderUnchanged

\* the onComplete prop (page.tsx:139-148); campaignData is the one of the
\* render whose closure the pipeline call holds
onComplete(captured, data) ==
    IF ~Truthy(captured) /\ Truthy(data)
    THEN [campaignData |-> data, orchStatus |-> "completed", set |-> TRUE]
    ELSE [campaignData |-> campaignData, orchStatus |-> orchStatus, set |-> FALSE]

\* the last timer ran out: onComplete(generateSampleCampaignData()) (part_001:125-126)
PipelineComplete(j) ==
    /\ ~crashed
    /\ runs[j].pc = "emit"
    /\ TimerDue(j)
    /\ LET h == onComplete(runs[j].captured, generateSampleCampaignData)
       IN  /\ Commit(uploadedFile, h.orchStatus, h.campaignData, h.set, storage, agents,
                     RemoveAt(runs, j))
           /\ finalizedBy' = IF h.set /\ runs[j].current /\ finalizedBy = "none"
                             THEN "pipeline" ELSE finalizedBy
    /\ procs' = IF crashed' THEN <<>> ELSE procs
    /\ UNCHANGED accepted
    /\ UploaderUnchanged

(***************************************************************************)
(* Home (page.tsx).                                                        *)
(***************************************************************************)
\* resetCampaign without its localStorage.removeItem
resetCampaignKeepsEntry ==
    /\ ~crashed
    /\ Truthy(campaignData)
    /\ Commit(Null, "idle", Null, TRUE, storage, agents, Stale(runs))
    /\ procs' = Stale(procs)
    /\ accepted' = Null
    /\ finalizedBy' = "none"
    /\ UploaderUnchanged

\* resetCampaign (page.tsx:66-71), behind the button shown while there is
\* campaign data (page.tsx:109-117)
resetCampaign ==
    /\ ~crashed
    /\ Truthy(campaignData)
    /\ Commit(Null, "idle", Null, TRUE, Null, agents, Stale(runs))
    /\ procs' = Stale(procs)
    /\ accepted' = Null
    /\ finalizedBy' = "none"
    /\ UploaderUnchanged

\* the page is loaded afresh over the same storage; what was running is gone
Reload ==
    /\ uploadedFile' = Null
    /\ file' = Null
    /\ uploadProgress' = 0
    /\ isUploading' = FALSE
    /\ useManualTranscript' = FALSE
    /\ manualTranscript' = Str("")
    /\ error' = Null
    /\ procs' = <<>>
    /\ orchMounted' = FALSE
    /\ agents' = AgentsPending
    /\ runs' = <<>>
    /\ accepted' = Null
    /\ finalizedBy' = "none"
    /\ \E loaded \in {LoadState(storage)} :
           /\ orchStatus' = loaded.orchStatus
           /\ campaignData' = loaded.campaignData
           /\ storage' = loaded.storage
           /\ crashed' = loaded.crashed
           /\ tasks' = IF loaded.crashed THEN Undef
                       ELSE TasksState(loaded.campaignData, Undef)
    /\ UNCHANGED <<raw, mappedData>>

\* toggleTask (part_002:22-24), by a click on a task of the shown card
toggleTask ==
    /\ ~crashed
    /\ tasks # Undef
    /\ \E index \in 1..Len(tasks.a) :
          tasks' = Arr([i \in 1..Len(tasks.a) |->
                          IF i = index
                          THEN Obj([tasks.a[i].f EXCEPT
                                      !.completed = Bool(~tasks.a[i].f.completed.b)])
                          ELSE tasks.a[i]])
    /\ UNCHANGED <<uploadedFile, orchStatus, campaignData, storage, orchMounted, agents,
                   runs, crashed, procs, accepted, finalizedBy>>
    /\ UploaderUnchanged

Next ==
    \/ handleFileChange
    \/ handleDrop
    \/ setUseManualTranscript
    \/ setManualTranscript
    \/ ClickSubmit
    \/ \E i \in 1..Len(procs) : UploadResolved(i)
    \/ \E i \in 1..Len(procs) : UploadRejected(i)
    \/ \E i \in 1..Len(procs) : CreateResolved(i)
    \/ \E i \in 1..Len(procs) : CreateRejected(i)
    \/ \E j \in 1..Len(runs) : AgentDone(j)
    \/ \E j \in 1..Len(runs) : PipelineComplete(j)
    \/ resetCampaign
    \/ Reload

Spec == Init /\ [][Next]_vars

\* the handlers as above, and handleSubmit also called past the disabled button
NextDirect == Next \/ CallSubmit

SpecDirect == Init /\ [][NextDirect]_vars

\* the handlers as above, and the clicks on the tasks of the shown TasksCard
NextTasks == Next \/ toggleTask

SpecTasks == Init /\ [][NextTasks]_vars

TypeOK ==
    /\ orchStatus \in {"idle", "uploading", "orchestrating", "completed", "error"}
    /\ Len(runs) <= MaxRuns
    /\ Len(procs) <= 1

(***************************************************************************)
(* CampaignResults as a function of its data prop: the second              *)
(* specification draws a raw payload and builds mappedData from it.        *)
(***************************************************************************)
\* the object with the properties of f that are not undefined
Rec(f) == Obj([k \in {x \in DOMAIN f : f[x] # Undef} |-> f[k]])

CanonicalStrategy ==
    Obj([primary_angle |-> Str("X"), target_audience |-> Str("A"),
         key_messages |-> Arr(<<Str("M")>>), content_pillars |-> Arr(<<Str("P")>>)])

CanonicalTiktok ==
    Obj([hook |-> Str("Y"), caption |-> Str("C"), hashtags |-> Arr(<<Str("#h")>>),
         optimal_time |-> Str("noon")])

CanonicalTasks == Arr(<<SampleTask("Z", "HIGH", "5 min")>>)

StrategyShapes ==
    {Undef, EmptyObj, CanonicalStrategy,
     Obj([key_themes |-> Arr(<<Str("Launch"), Str("Trust")>>),
          campaign_objectives |-> Arr(<<Str("Awareness")>>),
          target_audience |-> Str("Founders"),
          content_pillars |-> Arr(<<Str("Education")>>)]),
     Obj([key_themes |-> Arr(<<>>), primary_angle |-> Str("X")])}

PlatformContentShapes ==
    {Undef, EmptyObj, Obj([tiktok |-> Obj([hook |-> Str("Watch this")])]),
     Obj([tiktok |-> Obj([hook |-> Str("Watch this"), caption |-> Str("New drop"),
                          hashtags |-> Arr(<<Str("#launch")>>),
                          posting_time |-> Str("7 PM")])])}

TiktokShapes == {Undef, CanonicalTiktok}

TasksShapes == {Undef, CanonicalTasks}

ProductionTasksShapes ==
    {Undef, EmptyObj, Obj([tasks |-> Arr(<<>>)]),
     Obj([tasks |-> Arr(<<
        Obj([title |-> Str("Cut the teaser"), priority |-> Str("HIGH"),
             estimated_hours |-> Num(2), status |-> Str("DONE")]),
        Obj([description |-> Str("Write the caption"), priority |-> Str("URGENT"),
             estimated_hours |-> Num(0), status |-> Str("TODO")]),
        Obj([title |-> Str("Post")])>>)])}

RawPayloads ==
    {Rec([strategy |-> s, platform_content |-> pc, tiktok |-> tk, tasks |-> ts,
          production_tasks |-> pt]) :
        s \in StrategyShapes, pc \in PlatformContentShapes, tk \in TiktokShapes,
        ts \in TasksShapes, pt \in ProductionTasksShapes}

InitNormalize ==
    /\ Loaded(Null)
    /\ raw \in RawPayloads
    /\ mappedData = Undef

\* CampaignResults called with data = raw (part_001:12-36)
CampaignResults ==
    /\ mappedData = Undef
    /\ mappedData' = Normalize(raw)
    /\ UNCHANGED <<uploadedFile, orchStatus, campaignData, storage, file, uploadProgress,
                   isUploading, useManualTranscript, manualTranscript, error, procs,
                   orchMounted, agents, runs, crashed, raw, tasks, accepted, finalizedBy>>

NextNormalize == CampaignResults

SpecNormalize == InitNormalize /\ [][NextNormalize]_vars

(***************************************************************************)
(* Claims.                                                                 *)
(***************************************************************************)
\* a backend response of the current attempt reaches handleCampaignCreated
BackendSignal ==
    \E i \in 1..Len(procs) : procs[i].current /\ CreateResolved(i) /\ Truthy(campaignData')

\* the pipeline started in the current attempt calls onComplete
PipelineSignal == \E j \in 1..Len(runs) : runs[j].current /\ PipelineComplete(j)

\* C1: first acceptance wins.  Once one completion signal of the current
\* attempt has set the campaign, the other signal of that attempt (backend
\* response or simulated-pipeline completion, whichever comes second) leaves
\* campaignData as it is and orchStatus stays "completed".
C1_FirstAcceptanceWins ==
    [][(finalizedBy # "none" /\ ~crashed /\ (BackendSignal \/ PipelineSignal))
          => (campaignData' = campaignData /\ orchStatus' = "completed"
              /\ orchStatus = "completed")]_vars

\* C2: once handleCampaignCreated has set the campaign to the backend payload,
\* the onComplete call of the pipeline started in the same attempt leaves
\* campaignData equal to that payload.
C2_PipelineNeverReplacesBackend ==
    [][(accepted # Null /\ campaignData = accepted /\ PipelineSignal)
          => campaignData' = accepted]_vars

\* C3: on the file path, from the moment createCampaign has returned the
\* payload P and until the user resets or submits again, orchStatus is
\* "completed" and campaignData equals P.
C3_FilePathKeepsPayload ==
    (accepted # Null /\ Truthy(uploadedFile))
        => (orchStatus = "completed" /\ campaignData = accepted)

\* C4: a submission with no selected file and an empty manual transcript is
\* rejected: orchStatus does not change (it stays "idle"), a validation error
\* is set and no processVideo call, hence no backend call, is started.
C4_EmptySubmissionRejected ==
    [][(handleSubmit /\ ~Truthy(file) /\ ~Truthy(manualTranscript))
          => (/\ orchStatus' = orchStatus
              /\ Truthy(error')
              /\ procs' = procs
              /\ isUploading' = isUploading)]_vars

C4_Witness ==
    /\ error = Str("Please upload a video or provide a transcript")
    /\ ~Truthy(file)
    /\ ~Truthy(manualTranscript)
    /\ orchStatus = "idle"
    /\ procs = <<>>

\* the files C5 is stated over, with the limits as the specification gives them
AcceptedMimeTypes == {"video/mp4", "video/quicktime", "video/webm"}
FileUniverse ==
    {File(type, size) :
        type \in {"video/mp4", "video/quicktime", "video/webm", "video/x-msvideo",
                  "application/pdf", ""},
        size \in {0, 524287999, 524288000, 524288001}}
Acceptable(f) == f.type \in AcceptedMimeTypes /\ f.size <= 524288000

\* C5: validateFile accepts exactly the files of an accepted MIME type and of
\* at most 524,288,000 bytes; selecting any other file changes neither the
\* selection nor orchStatus nor the running calls and sets an error; and every
\* file selected or handed to uploadVideo is an acceptable one.
C5_OnlyAcceptableFilesUploaded ==
    [][/\ \A f \in FileUniverse : validateFile(f).ok <=> Acceptable(f)
       /\ \A f \in CandidateFiles :
             (SelectFile(f) /\ ~Acceptable(f))
                => (file' = file /\ orchStatus' = orchStatus /\ procs' = procs
                    /\ Truthy(error'))
       /\ Truthy(file') => Acceptable(file')
       /\ \A i \in 1..Len(procs') :
             procs'[i].pc = "uploadVideo" => Acceptable(procs'[i].file)]_vars

C5_Witness ==
    /\ orchStatus = "idle"
    /\ error = Str("Please upload an MP4, MOV, or WebM file")
    /\ file = Null
    /\ procs = <<>>

\* C6: after any completion (orchStatus "completed" with a campaign set by a
\* signal of the current attempt), a fresh load over the same storage restores
\* the same campaignData with orchStatus "completed".
C6_PersistenceRoundTrip ==
    (finalizedBy # "none" /\ orchStatus = "completed" /\ Truthy(campaignData))
        => (/\ LoadState(storage).campaignData = campaignData
            /\ LoadState(storage).orchStatus = "completed")

\* C7: resetCampaign sets campaignData to null and orchStatus to "idle" and
\* removes the 'lastCampaign' entry, so that a load over the storage it leaves
\* restores no campaign and starts "idle".
C7_ResetClears ==
    [][resetCampaign
          => (/\ campaignData' = Null
              /\ orchStatus' = "idle"
              /\ storage' = Null
              /\ LoadState(storage').campaignData = Null
              /\ LoadState(storage').orchStatus = "idle")]_vars

\* a pipeline call is still running and no file is held by Home: only a
\* reset leaves this behind
C7_Witness ==
    /\ Len(runs) > 0
    /\ uploadedFile = Null
    /\ campaignData = Null
    /\ orchStatus = "idle"
    /\ storage = Null

HasAll(v, keys) == v.t = "object" /\ \A k \in keys : k \in DOMAIN v.f /\ v.f[k] # Undef

\* C8: the normalizer is total: for every raw payload it returns a model in
\* which strategy, tiktok and every task carry all their required fields.
C8_NormalizerTotal ==
    mappedData # Undef
        => (/\ HasAll(mappedData, {"strategy", "tiktok", "tasks"})
            /\ HasAll(mappedData.f.strategy,
                      {"primary_angle", "target_audience", "key_messages", "content_pillars"})
            /\ HasAll(mappedData.f.tiktok, {"hook", "caption", "hashtags", "optimal_time"})
            /\ \A i \in 1..Len(mappedData.f.tasks.a) :
                  HasAll(mappedData.f.tasks.a[i],
                         {"task", "priority", "estimated_time", "completed"}))

\* C9: every normalized task has a priority in {HIGH, MEDIUM, LOW}.
C9_PriorityInRange ==
    (mappedData # Undef /\ mappedData.t = "object")
        => \A i \in 1..Len(mappedData.f.tasks.a) :
              mappedData.f.tasks.a[i].f.priority \in {Str("HIGH"), Str("MEDIUM"), Str("LOW")}

\* a payload already in the canonical shape
IsCanonical(m) ==
    /\ m.t = "object"
    /\ DOMAIN m.f = {"strategy", "tiktok", "tasks"}
    /\ HasAll(m.f.strategy,
              {"primary_angle", "target_audience", "key_messages", "content_pillars"})
    /\ HasAll(m.f.tiktok, {"hook", "caption", "hashtags", "optimal_time"})

\* C10: normalizing a payload already in the canonical shape gives it back:
\* every field the input has keeps its value (fields it lacks may be filled
\* with defaults).
C10_Idempotent ==
    (mappedData # Undef /\ IsCanonical(raw))
        => (/\ mappedData.t = "object"
            /\ \A k \in {"strategy", "tiktok"} :
                  \A x \in DOMAIN raw.f[k].f : Get(Get(mappedData, k), x) = raw.f[k].f[x]
            /\ Get(mappedData, "tasks") = raw.f.tasks)

\* a backend call of processVideo rejects (a non-ok response makes the api
\* function throw)
BackendFailure == \E i \in 1..Len(procs) : UploadRejected(i) \/ CreateRejected(i)

\* C11: a rejected uploadVideo, createCampaign or createCampaignFromTranscript
\* while orchStatus is "uploading" or "orchestrating" sets orchStatus to
\* "error" and the error to the failure's message and leaves no backend call
\* outstanding; a backend call is started by handleSubmit only, or by the
\* processVideo call whose upload succeeded.
C11_FailureMovesToError ==
    [][/\ (BackendFailure /\ orchStatus \in {"uploading", "orchestrating"})
            => (/\ orchStatus' = "error"
                /\ error' \in {Str(m) : m \in UploadErrors \cup CreateErrors}
                /\ procs' = <<>>
                /\ isUploading' = FALSE)
       /\ Len(procs') > Len(procs) => handleSubmit
       /\ \A i \in 1..Len(procs) :
             (i <= Len(procs') /\ procs'[i].pc # procs[i].pc)
                => (procs[i].pc = "uploadVideo" /\ UploadResolved(i))]_vars

C11_Witness ==
    /\ orchStatus = "error"
    /\ error = Str("Failed to create campaign")
    /\ procs = <<>>
    /\ isUploading = FALSE
    /\ Len(runs) > 0

\* a stored text JSON.parse throws on
Unparseable(s) == s # Null /\ JsonParse(s) = SyntaxError

\* C12: when the value under 'lastCampaign' cannot be parsed, the page, first
\* opened or loaded afresh, does not crash and starts with orchStatus "idle"
\* and campaignData null.
C12_CorruptStorageIgnored ==
    /\ Unparseable(storage) => (orchStatus = "idle" /\ campaignData = Null /\ ~crashed)
    /\ [][(Reload /\ Unparseable(storage))
              => (orchStatus' = "idle" /\ campaignData' = Null /\ ~crashed')]_vars

C12_Witness ==
    /\ storage = Text(<<Punct("{"), StrTok("strategy"), Punct(":")>>)
    /\ orchStatus = "idle"
    /\ campaignData = Null
    /\ ~crashed
    /\ file = Null
    /\ error = Null

\* a stored text that parses to an object with a strategy key
Restorable(s) ==
    /\ s # Null
    /\ JsonParse(s) # SyntaxError
    /\ JsonParse(s).t = "object"
    /\ "strategy" \in DOMAIN JsonParse(s).f

\* C13: the page, first opened or loaded afresh, restores the stored value
\* (campaignData equal to it, orchStatus "completed") only if it parses to a
\* value with a strategy key; for every other stored value it starts "idle"
\* with campaignData null.
C13_RestoreOnlyWithStrategy ==
    /\ IF Restorable(storage)
       THEN campaignData = JsonParse(storage) /\ orchStatus = "completed"
       ELSE campaignData = Null /\ orchStatus = "idle"
    /\ [][Reload => IF Restorable(storage)
                    THEN campaignData' = JsonParse(storage) /\ orchStatus' = "completed"
                    ELSE campaignData' = Null /\ orchStatus' = "idle"]_vars

\* the stages of orchStatus in the order of a campaign attempt
Rank(st) ==
    CASE st = "idle" -> 0
      [] st = "uploading" -> 1
      [] st = "orchestrating" -> 2
      [] st \in {"completed", "error"} -> 3

\* a campaign attempt is under way or has ended and was not reset
InAttempt ==
    \/ Truthy(uploadedFile)
    \/ \E i \in 1..Len(procs) : procs[i].current
    \/ finalizedBy # "none"

\* C14: within a campaign attempt (every step that is neither a submission nor
\* a reset nor a fresh load) orchStatus never moves to an earlier stage, and
\* once it is "completed" or "error" it keeps that value.
C14_StatusMonotonic ==
    [][(InAttempt /\ ~handleSubmit /\ ~resetCampaign /\ ~Reload)
          => (/\ Rank(orchStatus') >= Rank(orchStatus)
              /\ Rank(orchStatus) = 3 => orchStatus' = orchStatus)]_vars

\* C15: at most one of the three agents is "processing".
C15_OneAgentProcessing ==
    Cardinality({n \in 1..3 : agents[n] = "processing"}) <= 1

AgentRank(a) ==
    CASE a = "pending" -> 0
      [] a = "processing" -> 1
      [] a = "completed" -> 2

\* C16: agent N+1 is "processing" or "completed" only if agent N is
\* "completed", and while OrchestrationStatus stays mounted within an attempt
\* no agent moves back (pending -> processing -> completed).
C16_StageOrder ==
    [][/\ \A n \in 1..2 : agents'[n + 1] # "pending" => agents'[n] = "completed"
       /\ (orchMounted /\ orchMounted' /\ ~handleSubmit /\ ~resetCampaign /\ ~Reload)
             => \A n \in 1..3 : AgentRank(agents'[n]) >= AgentRank(agents[n])]_vars

\* C17: resetCampaign runs only when no backend call of processVideo is
\* outstanding and orchStatus is "idle", "completed" or "error".
C17_NoResetInFlight ==
    [][resetCampaign
          => (/\ procs = <<>>
              /\ isUploading = FALSE
              /\ orchStatus \in {"idle", "completed", "error"})]_vars

\* C18: whatever the page sets as campaignData, and whatever it writes under
\* 'lastCampaign', is in the canonical shape (strategy, tiktok, tasks with
\* their required fields), never the raw backend payload.
C18_SlotCanonical ==
    [][~Reload
          => (/\ (campaignData' # campaignData /\ Truthy(campaignData'))
                    => IsCanonical(campaignData')
              /\ (storage' # storage /\ storage' # Null)
                    => IsCanonical(JsonParse(storage')))]_vars

\* C19: resetCampaign leaves no file selected, neither in Home (uploadedFile)
\* nor in VideoUploader (file), so that Submit is refused until a file or a
\* transcript is given, and leaves the three agents "pending".
C19_ResetClearsSelection ==
    [][resetCampaign
          => (/\ uploadedFile' = Null
              /\ file' = Null
              /\ agents' = AgentsPending)]_vars

\* a property that is there and is neither undefined nor null
Present(v) == ~IsNullish(v)

\* the hook the priority list gives: platform_content.tiktok.hook, else the
\* flat tiktok.hook, else the empty string
ResolvedHook(data) ==
    LET nested == OptGet(OptGet(OptGet(data, "platform_content"), "tiktok"), "hook")
        flat == OptGet(OptGet(data, "tiktok"), "hook")
    IN  IF Present(nested) THEN nested ELSE IF Present(flat) THEN flat ELSE Str("")

\* C20: the normalized tiktok.hook is platform_content.tiktok.hook when
\* present, else the flat tiktok.hook when present, else ""; and a flat
\* payload's strategy.primary_angle and top-level tasks are carried over.
C20_FieldResolution ==
    (mappedData # Undef /\ mappedData.t = "object")
        => (/\ Get(Get(mappedData, "tiktok"), "hook") = ResolvedHook(raw)
            /\ (/\ Present(OptGet(OptGet(raw, "strategy"), "primary_angle"))
                /\ ~Present(OptGet(OptGet(raw, "strategy"), "key_themes")))
                  => Get(Get(mappedData, "strategy"), "primary_angle")
                        = Get(Get(raw, "strategy"), "primary_angle")
            /\ (/\ Present(OptGet(raw, "tasks"))
                /\ ~Present(OptGet(raw, "production_tasks")))
                  => Get(mappedData, "tasks") = Get(raw, "tasks"))

\* the tasks of the raw payload the mapping reads
RawTasks(data) ==
    LET ts == OptGet(OptGet(data, "production_tasks"), "tasks")
    IN  IF IsNullish(ts) THEN <<>> ELSE ts.a

\* C21: whenever mappedData is built, the completed flag of every mapped task
\* is true exactly when the raw task's status is "DONE" (false for every
\* other status and for an absent one).
C21_CompletedIffDone ==
    (mappedData # Undef /\ mappedData.t = "object")
        => (/\ Len(mappedData.f.tasks.a) = Len(RawTasks(raw))
            /\ \A i \in 1..Len(RawTasks(raw)) :
                  /\ mappedData.f.tasks.a[i].f.completed \in {Bool(TRUE), Bool(FALSE)}
                  /\ mappedData.f.tasks.a[i].f.completed = Bool(TRUE)
                        <=> ("status" \in DOMAIN RawTasks(raw)[i].f
                             /\ RawTasks(raw)[i].f.status = Str("DONE")))

C21_Witness ==
    /\ mappedData # Undef
    /\ mappedData.t = "object"
    /\ Len(mappedData.f.tasks.a) = 3
    /\ mappedData.f.tasks.a[1].f.completed = Bool(TRUE)
    /\ mappedData.f.tasks.a[2].f.completed = Bool(FALSE)
    /\ mappedData.f.tasks.a[3].f.completed = Bool(FALSE)
    /\ "status" \notin DOMAIN RawTasks(raw)[3].f

\* the value a canonical field has when the payload lacks its source: v if
\* the source is there, else the default d
Lacking(source, v, d) == IsNullish(source) => v = d

\* C22: whenever mappedData is built, a field whose source the payload lacks
\* is "" (text), the empty array (list), "TBD" (task duration) or "MEDIUM"
\* (task priority).
C22_DefaultsOnly ==
    (mappedData # Undef /\ mappedData.t = "object")
        => LET st == Get(raw, "strategy")
               tk == OptGet(OptGet(raw, "platform_content"), "tiktok")
               ms == mappedData.f.strategy
               mt == mappedData.f.tiktok
           IN  /\ Lacking(OptIndex(Get(st, "key_themes"), 0), Get(ms, "primary_angle"), Str(""))
               /\ Lacking(Get(st, "target_audience"), Get(ms, "target_audience"), Str(""))
               /\ Lacking(Get(st, "key_themes"), Get(ms, "key_messages"), Arr(<<>>))
               /\ Lacking(Get(st, "content_pillars"), Get(ms, "content_pillars"), Arr(<<>>))
               /\ Lacking(OptGet(tk, "hook"), Get(mt, "hook"), Str(""))
               /\ Lacking(OptGet(tk, "caption"), Get(mt, "caption"), Str(""))
               /\ Lacking(OptGet(tk, "hashtags"), Get(mt, "hashtags"), Arr(<<>>))
               /\ Lacking(OptGet(tk, "posting_time"), Get(mt, "optimal_time"), Str(""))
               /\ \A i \in 1..Len(RawTasks(raw)) :
                     LET t == RawTasks(raw)[i]
                         m == mappedData.f.tasks.a[i]
                     IN  /\ Lacking(Or(Get(t, "title"), Get(t, "description")),
                                    Get(m, "task"), Str(""))
                         /\ Lacking(Get(t, "priority"), Get(m, "priority"), Str("MEDIUM"))
                         /\ Lacking(Get(t, "estimated_hours"), Get(m, "estimated_time"),
                                    Str("TBD"))

\* C23: on the file path a submission starts uploadVideo with orchStatus
\* "uploading"; createCampaign is called, and orchStatus becomes
\* "orchestrating", only in the step in which uploadVideo resolves (never
\* after a rejected upload); on the transcript path the submission itself
\* sets "orchestrating" and calls createCampaignFromTranscript, and uploadVideo
\* is never called without a file.
C23_CallOrdering ==
    [][/\ \A i \in 1..Len(procs') :
             (/\ procs'[i].pc = "createCampaign"
              /\ ~(i <= Len(procs) /\ procs[i].pc = "createCampaign"))
                => (/\ i <= Len(procs)
                    /\ procs[i].pc = "uploadVideo"
                    /\ UploadResolved(i)
                    /\ orchStatus' = "orchestrating")
       /\ (handleSubmit /\ Len(procs') > Len(procs))
             => LET p == procs'[Len(procs')]
                IN  IF Truthy(file)
                    THEN p.pc = "uploadVideo" /\ orchStatus' = "uploading"
                    ELSE /\ p.pc = "createCampaignFromTranscript"
                         /\ orchStatus' = "orchestrating"
       /\ (Truthy(uploadedFile') /\ orchStatus' = "orchestrating"
               /\ orchStatus # "orchestrating")
             => \E i \in 1..Len(procs) : UploadResolved(i)
       /\ \A i \in 1..Len(procs') :
             procs'[i].pc \in {"uploadVideo", "createCampaign"} => Truthy(procs'[i].file)]_vars

C23_Witness ==
    /\ Len(procs) = 1
    /\ procs[1].pc = "createCampaign"
    /\ orchStatus = "orchestrating"
    /\ Truthy(uploadedFile)
    /\ uploadProgress = 60

\* C24: at most one processVideo call, hence at most one backend call, is
\* outstanding, and while one is, Submit is disabled.
C24_OneOutstandingCall ==
    /\ Len(procs) <= 1
    /\ procs # <<>> => (isUploading /\ SubmitDisabled)

C24_Witness ==
    /\ Len(procs) = 1
    /\ procs[1].pc = "createCampaign"
    /\ isUploading
    /\ Truthy(file)
    /\ Truthy(Str(Trim(manualTranscript.s)))

\* the 'Start New Campaign' button is there (page.tsx:109-117)
ResetShown == ~crashed /\ Truthy(campaignData)

\* the uploader takes a submission as soon as a file or a transcript is given
SubmitOpen == ~crashed /\ ~isUploading

\* C25: in every state with orchStatus "completed" or "error" the page can be
\* left again: the reset button is shown or a fresh submission can be made.
C25_NoDeadEnd ==
    orchStatus \in {"completed", "error"} => (ResetShown \/ SubmitOpen)

\* C26: orchStatus "completed" implies that campaignData is set.
C26_CompletedHasCampaign ==
    orchStatus = "completed" => Truthy(campaignData)

\* a backend call or a pipeline call of an earlier attempt delivers its result
StaleSignal ==
    \/ \E i \in 1..Len(procs) :
          /\ ~procs[i].current
          /\ UploadResolved(i) \/ UploadRejected(i) \/ CreateResolved(i) \/ CreateRejected(i)
    \/ \E j \in 1..Len(runs) : ~runs[j].current /\ PipelineComplete(j)

\* C27: a backend response or a pipeline completion that belongs to an attempt
\* ended by a reset or by a new submission changes neither campaignData nor
\* orchStatus nor the 'lastCampaign' entry.
C27_NoCrossAttemptSignal ==
    [][StaleSignal
          => (/\ campaignData' = campaignData
              /\ orchStatus' = orchStatus
              /\ storage' = storage)]_vars

\* two task lists are the same up to the check marks, which are TasksCard's own
SameTasks(ts, us) ==
    /\ Len(ts.a) = Len(us.a)
    /\ \A i \in 1..Len(ts.a) :
          [ts.a[i].f EXCEPT !.completed = Bool(FALSE)]
             = [us.a[i].f EXCEPT !.completed = Bool(FALSE)]

\* C28: while the results are shown, the tasks TasksCard displays are, up to
\* the check marks the user set, the tasks of the campaign now held in
\* campaignData, as mapped for the strategy and TikTok cards beside them.
C28_TasksOfCurrentCampaign ==
    tasks # Undef => SameTasks(tasks, Normalize(campaignData).f.tasks)

\* processVideo reaches the end of its try block
BackendSuccess == \E i \in 1..Len(procs) : CreateResolved(i)

\* C29: the step in which processVideo ends in its catch block leaves
\* campaignData and the 'lastCampaign' entry as they were, and every step in
\* which processVideo ends, in the catch block or after the try block, leaves
\* isUploading false and uploadProgress 0.
C29_FailureKeepsResults ==
    [][/\ BackendFailure => (campaignData' = campaignData /\ storage' = storage)
       /\ (BackendFailure \/ BackendSuccess)
             => (isUploading' = FALSE /\ uploadProgress' = 0)]_vars

C29_Witness ==
    /\ orchStatus = "error"
    /\ error = Str("Failed to upload video")
    /\ Truthy(campaignData)
    /\ storage # Null
    /\ isUploading = FALSE
    /\ uploadProgress = 0

\* C30: a submission with a file and a non-empty manualTranscript calls
\* uploadVideo, not createCampaignFromTranscript; a call of
\* createCampaignFromTranscript is started only by a submission with no file
\* and a non-empty manualTranscript, and the processVideo call of a file
\* never makes it.
C30_FilePathWins ==
    [][/\ (handleSubmit /\ Truthy(file) /\ Truthy(manualTranscript))
             => (/\ Len(procs') = Len(procs) + 1
                 /\ procs'[Len(procs')].pc = "uploadVideo"
                 /\ \A i \in 1..Len(procs') :
                       procs'[i].pc = "createCampaignFromTranscript"
                          => (i <= Len(procs) /\ procs[i] = procs'[i]))
       /\ (/\ \E i \in 1..Len(procs') : procs'[i].pc = "createCampaignFromTranscript"
           /\ ~\E i \in 1..Len(procs) : procs[i].pc = "createCampaignFromTranscript")
             => (handleSubmit /\ ~Truthy(file) /\ Truthy(manualTranscript))
       /\ \A i \in 1..Len(procs') :
             procs'[i].pc = "createCampaignFromTranscript"
                => (~Truthy(procs'[i].file) /\ Truthy(procs'[i].transcript))]_vars

C30_Witness ==
    /\ Len(procs) = 1
    /\ procs[1].pc = "uploadVideo"
    /\ Truthy(procs[1].file)
    /\ Truthy(manualTranscript)
    /\ useManualTranscript
    /\ orchStatus = "uploading"

====
